---------------------------- MODULE Spec2Model ----------------------------
(***************************************************************************)
(* A model of cantera_spray's Sim1D (include/cantera/oneD/Sim1D.h): the    *)
(* continuation driver (setStrainRate, unbound_residue, bound_residue,     *)
(* updateBounds) and the hybrid solve loop around it.                      *)
(*                                                                         *)
(* Numbers.  A C++ double is modelled as an exact number                   *)
(*     <<n, d, hn, hd>>  =  n/d + (hn/hd) * 10^10                          *)
(* with both fractions in lowest terms and positive denominators.  The     *)
(* second fraction carries multiples of 10^10 (the upper bound of the      *)
(* continuation slot), which does not fit the model checker's integers.    *)
(* Rounding is not modelled: all arithmetic is exact.  Comparisons are     *)
(* exact as long as the plain parts stay far below 10^10, which they do    *)
(* for every value the model draws.                                        *)
(***************************************************************************)
EXTENDS Integers, Sequences, FiniteSets, TLC

(***************************************************************************)
(* Bounds of the model.                                                    *)
(***************************************************************************)
NComp == 3        \* components per point of the flow domain (u, V, one more)
MaxPoints == 3    \* most grid points the refiner may give the flow domain
MaxCalls == 3     \* calls of the simulation's operations per run
MaxAttempts == 2  \* steady Newton attempts followed within one solve
MaxRefine == 1    \* refinement iterations one solve may make
MaxSteps == 2     \* time steps in one block of the timestep sequence
MaxHalve == 1     \* halvings that take the timestep down to its floor
SprayPoints == 3  \* grid points of the spray domain
MaxSpecies == 2   \* most gas species of the spray domain
SizeBits == 16    \* bits of a size_t as far as the checker's integers go

(***************************************************************************)
(* Exact arithmetic standing for double arithmetic.                        *)
(***************************************************************************)
IAbs(i) == IF i < 0 THEN -i ELSE i

ISgn(i) == IF i < 0 THEN -1 ELSE IF i > 0 THEN 1 ELSE 0

RECURSIVE GCD(_, _)
GCD(a, b) == IF b = 0 THEN a ELSE GCD(b, a % b)

FracBy(n, d, g) ==
    IF d < 0 THEN <<(-n) \div g, (-d) \div g>> ELSE <<n \div g, d \div g>>

\* n/d in lowest terms, denominator positive (d # 0)
Frac(n, d) == IF d = 1 THEN <<n, 1>> ELSE FracBy(n, d, GCD(IAbs(n), IAbs(d)))

Num(n) == <<n, 1, 0, 1>>

Rat(n, d) == Frac(n, d) \o <<0, 1>>

Zero == Num(0)

\* the number 10^10
Huge == <<0, 1, 1, 1>>

IsPlain(x) == x[3] = 0

RAdd(x, y) ==
    Frac(x[1] * y[2] + y[1] * x[2], x[2] * y[2])
        \o (IF x[3] = 0 /\ y[3] = 0 THEN <<0, 1>>
            ELSE Frac(x[3] * y[4] + y[3] * x[4], x[4] * y[4]))

RNeg(x) == <<-x[1], x[2], -x[3], x[4]>>

RSub(x, y) == RAdd(x, RNeg(y))

\* IEEE 754 special values: a zero denominator marks them
NaN == <<0, 0, 0, 0>>

Inf(s) == <<s, 0, 0, 0>>

IsSpecial(x) == x[2] = 0

\* a product with an infinity or a NaN among its factors
SpecialMul(sx, sy) == IF sx = 0 \/ sy = 0 THEN NaN ELSE Inf(sx * sy)

\* a product is representable when one factor has no 10^10 part
RMul(x, y) ==
    CASE IsSpecial(x) \/ IsSpecial(y) ->
            SpecialMul(IF x[3] # 0 THEN ISgn(x[3]) ELSE ISgn(x[1]),
                       IF y[3] # 0 THEN ISgn(y[3]) ELSE ISgn(y[1]))
      [] IsPlain(x) /\ IsPlain(y) ->
            Frac(x[1] * y[1], x[2] * y[2]) \o <<0, 1>>
      [] IsPlain(x) /\ ~IsPlain(y) ->
            Frac(x[1] * y[1], x[2] * y[2]) \o Frac(x[1] * y[3], x[2] * y[4])
      [] IsPlain(y) /\ ~IsPlain(x) ->
            Frac(x[1] * y[1], x[2] * y[2]) \o Frac(x[3] * y[1], x[4] * y[2])

\* a quotient is representable when the divisor is plain; x/0 is an
\* infinity of x's sign, and 0/0 is NaN
RDiv(x, y) ==
    CASE IsPlain(y) /\ y[1] # 0 -> RMul(x, Rat(y[2], y[1]))
      [] y[1] = 0 /\ y[2] = 1 /\ y[3] = 0 ->
            SpecialMul(IF x[3] # 0 THEN ISgn(x[3]) ELSE ISgn(x[1]), 1)

RSign(x) == IF x[3] # 0 THEN ISgn(x[3]) ELSE ISgn(x[1])

\* the sign of x - y
RCmp(x, y) ==
    IF x[3] = y[3] /\ x[4] = y[4]
    THEN ISgn(x[1] * y[2] - y[1] * x[2])
    ELSE ISgn(x[3] * y[4] - y[3] * x[4])

RLt(x, y) == RCmp(x, y) < 0

RGt(x, y) == RCmp(x, y) > 0

RLe(x, y) == ~RGt(x, y)

RAbs(x) == IF RSign(x) < 0 THEN RNeg(x) ELSE x

RECURSIVE RSum(_, _)
\* sum of v[0] .. v[n-1]
RSum(v, n) == IF n = 0 THEN Zero ELSE RAdd(RSum(v, n - 1), v[n - 1])

(***************************************************************************)
(* Layout of the flow domain (domain 1) in the global solution vector.     *)
(* The inlets (domains 0 and 2) carry no solution components, so the flow  *)
(* domain's slice starts at 0 and is the whole vector.                     *)
(***************************************************************************)
u_index == 0

V_index == 1

\* global offset of component i at point j of the flow domain
Index(i, j) == j * NComp + i

size(npts) == NComp * npts

\* the flow domain's per-component bounds (Domain1D::lowerBound/upperBound)
lowerBound(i) == Num(i - 2)

upperBound(i) == Num(i + 2)


(***************************************************************************)
(* State of the simulation.                                                *)
(***************************************************************************)
VARIABLES
    np,                   \* flow domain: number of grid points
    grid,                 \* flow domain: the grid z[0..np-1]
    m_x,                  \* the solution vector, indices 0..size-1
    lb, ub,               \* bound vectors used by the continuation
    m_chi,                \* strain rate
    m_amplify_threshold,
    m_uin_f, m_uin_o, m_rhoin_f, m_rhoin_o,
    mdot_f, mdot_o,       \* mass flux held by the left / right inlet
    f,                    \* the caller's residual buffer after the last call
    call,                 \* the last driver call: its arguments and locals
    ncalls,               \* calls made so far
    pc,                   \* position in solve(), or how the last call ended
    refine_grid,          \* solve()'s argument
    m_xlast_ts,           \* solution after the last successful time step
    m_xlast_ss,           \* solution after the last successful steady solve
    m_grid_last_ss,       \* flow-domain grid at that steady solve
    m_steady_callback,    \* TRUE when a callback is registered
    status,               \* what the last newtonSolve() returned
    ret,                  \* what the last solve() returned: <<>> is no value
    run,                  \* solve()'s locals: attempts, refinements, steps, dt
    last,                 \* history: how the last solver attempt ended
    good,                 \* history: solution and grid at the last successes
    cb,                   \* history: callback invocations of this solve
    m_nsp,                \* spray domain: number of gas species
    m_z,                  \* spray domain: the grid
    xs,                   \* the solution array handed to the spray domain
    m_prs_A, m_prs_B, m_prs_C, m_Tb, m_cvt,   \* vapour pressure parameters
    c_offset_fuel,        \* index of the fuel species, a size_t
    gas,                  \* cached gas properties and the pressure
    sp                    \* the last spray operation and what it produced

drv == <<np, grid, m_x, lb, ub, m_chi, m_amplify_threshold, m_uin_f, m_uin_o,
         m_rhoin_f, m_rhoin_o, mdot_f, mdot_o, f, call>>

slv == <<pc, refine_grid, m_xlast_ts, m_xlast_ss, m_grid_last_ss,
         m_steady_callback, status, ret, run, last, good, cb>>

spr == <<m_nsp, m_z, xs, m_prs_A, m_prs_B, m_prs_C, m_Tb, m_cvt,
         c_offset_fuel, gas, sp>>

vars == <<drv, ncalls, slv, spr>>

\* vectors are functions on 0..n-1; the empty vector
NoVec == [k \in 0..(-1) |-> Zero]

systemSize == Cardinality(DOMAIN m_x)

(***************************************************************************)
(* Sim1D::updateBounds                                                     *)
(***************************************************************************)
\* mutant: the point index where the component index belongs
updateBounds_lb_swapped(npts) ==
    [k \in 0..(NComp * npts) |->
        IF k = NComp * npts THEN Zero ELSE lowerBound(k \div NComp)]

updateBounds_lb(npts) ==
    [k \in 0..(NComp * npts) |->
        IF k = NComp * npts THEN Zero ELSE lowerBound(k % NComp)]

updateBounds_ub(npts) ==
    [k \in 0..(NComp * npts) |->
        IF k = NComp * npts THEN Huge ELSE upperBound(k % NComp)]

(***************************************************************************)
(* Sim1D::setSolution, Sim1D::getResidual                                  *)
(***************************************************************************)
\* std::copy(soln, soln + m_x.size(), m_x.data())
setSolution(soln, n) == [k \in 0..(n - 1) |-> soln[k]]

\* The steady residual F(x, 0) of the assembled system, one entry per
\* solution component.  The flow physics is outside this model; this is a
\* fixed stand-in with the inlet rows of the flow domain (U - mdot_f at the
\* left, U + mdot_o at the right) and first differences elsewhere.
Resid(mx, npts, mf, mo) ==
    [k \in 0..(NComp * npts - 1) |->
        LET i == k % NComp
            j == k \div NComp
        IN  IF i = u_index /\ j = 0 THEN RSub(mx[k], mf)
            ELSE IF i = u_index /\ j = npts - 1 THEN RAdd(mx[k], mo)
            ELSE IF j = 0 THEN mx[k]
            ELSE RSub(mx[k], mx[k - NComp])]

getResidual(mx, npts, mf, mo) == Resid(mx, npts, mf, mo)

(***************************************************************************)
(* Sim1D::setStrainRate                                                    *)
(***************************************************************************)
Amplifies_ge(chi, a1, tau) == ~RLt(RAbs(RSub(chi, a1)), tau)

\* the gate: |m_chi - a1| > m_amplify_threshold
Amplifies(chi, a1, tau) == RGt(RAbs(RSub(chi, a1)), tau)

\* the loop over the flow's points: u and V times ratio, the rest untouched
amplifyVelocities(mx, npts, ratio) ==
    [k \in DOMAIN mx |->
        IF \E i \in 0..(npts - 1) : k = Index(u_index, i) \/ k = Index(V_index, i)
        THEN RMul(mx[k], ratio)
        ELSE mx[k]]

\* the mass flux pushed to an inlet: a local copy of the velocity is scaled
pushedMdot(rhoin, uin, ratio) == RMul(rhoin, RMul(uin, ratio))

\* the state setStrainRate(nvar, x) leaves, a1 = x[nvar-1]
amplified(mx, npts, a1, ratio) ==
    [m_x |-> amplifyVelocities(mx, npts, ratio),
     mdot_f |-> pushedMdot(m_rhoin_f, m_uin_f, ratio),
     mdot_o |-> pushedMdot(m_rhoin_o, m_uin_o, ratio),
     m_chi |-> a1,
     amp |-> TRUE]

\* mutant: the strain rate is stored only when the call amplifies
setStrainRate_keepChi(mx, npts, a1) ==
    IF Amplifies(m_chi, a1, m_amplify_threshold)
    THEN [amplified(mx, npts, a1, RDiv(a1, m_chi)) EXCEPT !.m_chi = m_chi]
    ELSE [m_x |-> mx, mdot_f |-> mdot_f, mdot_o |-> mdot_o, m_chi |-> m_chi,
          amp |-> FALSE]

setStrainRate(mx, npts, a1) ==
    IF Amplifies(m_chi, a1, m_amplify_threshold)
    THEN amplified(mx, npts, a1, RDiv(a1, m_chi))
    ELSE [m_x |-> mx, mdot_f |-> mdot_f, mdot_o |-> mdot_o, m_chi |-> a1,
          amp |-> FALSE]

(***************************************************************************)
(* Sim1D::unbound_residue                                                  *)
(***************************************************************************)
\* fin is the caller's buffer before the call; getResidual writes only the
\* first m_x.size() entries of it
\* the caller's buffer after getResidual wrote its first n entries
residualInto(n, nvar, r, fin) ==
    [i \in 0..(nvar - 1) |-> IF i < n THEN r[i] ELSE fin[i]]

\* s is the state setStrainRate left
unbound_residue_at(nvar, s, fin) ==
    [m_x |-> s.m_x, mdot_f |-> s.mdot_f, mdot_o |-> s.mdot_o,
     m_chi |-> s.m_chi, amp |-> s.amp,
     f |-> residualInto(systemSize, nvar,
                        getResidual(s.m_x, np, s.mdot_f, s.mdot_o), fin)]

\* mutant: setStrainRate runs on the old solution, before x is copied in
unbound_residue_strainFirst(nvar, x, fin) ==
    unbound_residue_at(nvar,
        [setStrainRate(m_x, np, x[nvar - 1]) EXCEPT
            !.m_x = setSolution(x, systemSize)],
        fin)

unbound_residue(nvar, x, fin) ==
    unbound_residue_at(nvar,
        setStrainRate(setSolution(x, systemSize), np, x[nvar - 1]), fin)

(***************************************************************************)
(* Sim1D::bound_residue                                                    *)
(***************************************************************************)
minIncr == Rat(1, 1000)

\* mutant: the upper test compares with the lower bound
xBorderAt_typo(x, i) ==
    IF RLt(x[i], lb[i]) THEN lb[i]
    ELSE IF RGt(x[i], lb[i]) THEN ub[i]
    ELSE x[i]

xBorderAt(x, i) ==
    IF RLt(x[i], lb[i]) THEN lb[i]
    ELSE IF RGt(x[i], ub[i]) THEN ub[i]
    ELSE x[i]

\* mutant: a violated upper bound adds nothing
excessAt_lowerOnly(x, i) ==
    IF RLt(x[i], lb[i]) THEN RSub(lb[i], x[i]) ELSE Zero

excessAt(x, i) ==
    IF RLt(x[i], lb[i]) THEN RSub(lb[i], x[i])
    ELSE IF RGt(x[i], ub[i]) THEN RSub(x[i], ub[i])
    ELSE Zero

\* mutant: f[i] >= 0.0
perturb_sign(fi) == RMul(Num(RSign(fi)), minIncr)

perturb_ge(fi) == IF RLt(fi, Zero) THEN RNeg(minIncr) ELSE minIncr

\* perturb = f[i] > 0.0 ? minIncr : -minIncr
perturb(fi) == IF RGt(fi, Zero) THEN minIncr ELSE RNeg(minIncr)

penalized(fi, excess) == RAdd(fi, RMul(RAdd(fi, perturb(fi)), excess))

\* the first loop: the projection of x onto the bounds
xBorder(nvar, x) == [i \in 0..(nvar - 1) |-> xBorderAt(x, i)]

\* the first loop: the accumulated excess
excess(nvar, x) == RSum([i \in 0..(nvar - 1) |-> excessAt(x, i)], nvar)

\* the second loop, over the buffer F that getResidual left
penalize(nvar, F, exc) == [i \in 0..(nvar - 1) |-> penalized(F[i], exc)]

\* the state bound_residue leaves: the strain rate and the inlets are not
\* touched
bound_residue_at(nvar, mx, F, exc) ==
    [m_x |-> mx, m_chi |-> m_chi, mdot_f |-> mdot_f, mdot_o |-> mdot_o,
     excess |-> exc, F |-> F, f |-> penalize(nvar, F, exc)]

\* mutant: setStrainRate runs after the copy, as in unbound_residue
bound_residue_strain(nvar, x, fin) ==
    LET s == unbound_residue(nvar, xBorder(nvar, x), fin)
    IN  [m_x |-> s.m_x, m_chi |-> s.m_chi, mdot_f |-> s.mdot_f,
         mdot_o |-> s.mdot_o, excess |-> excess(nvar, x), F |-> s.f,
         f |-> penalize(nvar, s.f, excess(nvar, x))]

bound_residue(nvar, x, fin) ==
    bound_residue_at(nvar,
        setSolution(xBorder(nvar, x), systemSize),
        residualInto(systemSize, nvar,
            getResidual(setSolution(xBorder(nvar, x), systemSize), np,
                        mdot_f, mdot_o),
            fin),
        excess(nvar, x))

(***************************************************************************)
(* Grid refinement and resize (Sim1D::refine, Sim1D::resize).              *)
(***************************************************************************)
Half(x) == RMul(Rat(1, 2), x)

\* the grid with the midpoint of interval [k, k+1] inserted
insertPoint(z, npts, k) ==
    [j \in 0..npts |->
        IF j <= k THEN z[j]
        ELSE IF j = k + 1 THEN Half(RAdd(z[k], z[k + 1]))
        ELSE z[j - 1]]

\* the solution on that grid: the new point is interpolated linearly
insertValues(mx, npts, k) ==
    [q \in 0..(NComp * (npts + 1) - 1) |->
        LET i == q % NComp
            j == q \div NComp
        IN  IF j <= k THEN mx[Index(i, j)]
            ELSE IF j = k + 1
                 THEN Half(RAdd(mx[Index(i, k)], mx[Index(i, k + 1)]))
            ELSE mx[Index(i, j - 1)]]

\* the grid and the solution with interior point k removed
removePoint(z, npts, k) ==
    [j \in 0..(npts - 2) |-> IF j < k THEN z[j] ELSE z[j + 1]]

removeValues(mx, npts, k) ==
    [q \in 0..(NComp * (npts - 1) - 1) |->
        LET i == q % NComp
            j == q \div NComp
        IN  IF j < k THEN mx[Index(i, j)] ELSE mx[Index(i, j + 1)]]

\* Sim1D::resize: the bound vectors are refilled for the new point count
resize_lb(npts) == updateBounds_lb(npts)

resize_ub(npts) == updateBounds_ub(npts)

(***************************************************************************)
(* Inputs.                                                                 *)
(***************************************************************************)
ChiVals == {Num(1), Num(2), Num(4)}

TauVals == {Zero, Num(1)}

VelVals == {Num(1), Num(3)}

RhoVals == {Num(1), Num(2)}

Patterns == {"in", "lo", "hi", "under", "over", "both"}

\* what the caller's buffer holds in the slot past the residual
FSlotVals == {Zero, Num(1)}

\* the calls of bound_residue: <<pattern, continuation value, buffer slot>>
BoundInputs ==
    (Patterns \X {Num(1)} \X {Zero})
        \cup ({"in", "both"} \X {Num(-1), RAdd(Huge, Num(1))} \X FSlotVals)
        \cup ({"lo", "hi"} \X {Zero, Huge} \X {Num(1)})

\* the calls of unbound_residue: <<pattern, continuation value>>
UnboundInputs == {"in", "hi"} \X ChiVals

\* a value inside the bounds of component i, varying with the point
InsideVal(i, j) == RAdd(lowerBound(i), Num(1 + (j % 3)))

PatVal(p, npts, i, j) ==
    CASE p = "in" -> InsideVal(i, j)
      [] p = "lo" -> lowerBound(i)
      [] p = "hi" -> upperBound(i)
      [] p = "under" ->
            IF i = u_index /\ j = 0 THEN RSub(lowerBound(i), Num(1))
            ELSE InsideVal(i, j)
      [] p = "over" ->
            IF i = V_index /\ j = npts - 1 THEN RAdd(upperBound(i), Num(2))
            ELSE InsideVal(i, j)
      [] p = "both" ->
            IF i = u_index /\ j = 0 THEN RSub(lowerBound(i), Num(1))
            ELSE IF i = V_index /\ j = npts - 1 THEN RAdd(upperBound(i), Num(2))
            ELSE InsideVal(i, j)

\* the augmented vector of length size+1: pattern p, continuation value a1
XIn(p, npts, a1) ==
    [k \in 0..(NComp * npts) |->
        IF k = NComp * npts THEN a1
        ELSE PatVal(p, npts, k % NComp, k \div NComp)]

\* the caller's buffer before a call: only the last slot is ever read
FIn(npts, v) == [k \in 0..(NComp * npts) |-> IF k = NComp * npts THEN v ELSE Zero]

NoCall == [op |-> "none", x |-> NoVec, amp |-> FALSE, excess |-> Zero,
           F |-> NoVec, seq |-> 0]

(***************************************************************************)
(* The spray flow domain (SprayFlame): layout of a point, the liquid       *)
(* parameters, the fuel index and the upwinded derivatives.                *)
(***************************************************************************)
c_offset_U == 0

c_offset_V == 1

c_offset_T == 2

c_offset_L == 3

c_offset_Y == 4

c_offset_Ul == 0

c_offset_vl == 1

c_offset_Tl == 2

c_offset_ml == 3

c_offset_nl == 4

mmHg2Pa == Rat(26664473, 200000)

bar2Pa == Num(100000)

\* components of a spray point: the gas components, then five liquid ones
m_nv == c_offset_Y + m_nsp + 5

nPoints == Cardinality(DOMAIN m_z)

\* Domain1D::index
index(n, j) == m_nv * j + n

\* m_dz[j] = z(j+1) - z(j)
m_dz(j) == RSub(m_z[j + 1], m_z[j])

\* size_t arithmetic wraps modulo 2^SizeBits
SizeMod == 2 ^ SizeBits

SizeSub(a, b) == (a - b) % SizeMod

SizeAdd(a, b) == (a + b) % SizeMod

SizeMul(a, b) == (a * b) % SizeMod

\* gas-phase components
T(x, j) == x[index(c_offset_T, j)]

u(x, j) == x[index(c_offset_U, j)]

V(x, j) == x[index(c_offset_V, j)]

lambda(x, j) == x[index(c_offset_L, j)]

Y(x, k, j) == x[index(SizeAdd(c_offset_Y, k), j)]

\* mutant: the species are not skipped
Ul_mixed == c_offset_Y + c_offset_Ul

\* offsets of the liquid components: c_offset_Y + m_nsp + c_offset_*l
Ul_offset == c_offset_Y + m_nsp + c_offset_Ul

vl_offset == c_offset_Y + m_nsp + c_offset_vl

Tl_offset == c_offset_Y + m_nsp + c_offset_Tl

ml_offset == c_offset_Y + m_nsp + c_offset_ml

nl_offset == c_offset_Y + m_nsp + c_offset_nl

Tl(x, j) == x[index(Tl_offset, j)]

vl(x, j) == x[index(vl_offset, j)]

Ul(x, j) == x[index(Ul_offset, j)]

ml(x, j) == x[index(ml_offset, j)]

nl(x, j) == x[index(nl_offset, j)]

\* names of the components, in the order of their offsets
speciesName(k) == <<"S0", "S1", "S2", "S3">>[k + 1]

componentName(n) ==
    IF n = c_offset_U THEN "u"
    ELSE IF n = c_offset_V THEN "V"
    ELSE IF n = c_offset_T THEN "T"
    ELSE IF n = c_offset_L THEN "lambda"
    ELSE IF n < c_offset_Y + m_nsp THEN speciesName(n - c_offset_Y)
    ELSE IF n = Ul_offset THEN "Ul"
    ELSE IF n = vl_offset THEN "vl"
    ELSE IF n = Tl_offset THEN "Tl"
    ELSE IF n = ml_offset THEN "ml"
    ELSE "nl"

componentNames == {componentName(n) : n \in 0..(m_nv - 1)}

componentIndex(name) == CHOOSE n \in 0..(m_nv - 1) : componentName(n) = name

\* setLiquidVapPressParam: the parameters left by a call; a unit that is
\* neither "mmHg" nor "bar" falls through both branches
setLiquidVapPressParam(A_, B_, C_, Tb_, unit_) ==
    IF unit_ = "mmHg"
    THEN [m_prs_A |-> A_, m_prs_B |-> B_,
          m_prs_C |-> RSub(C_, Rat(27315, 100)), m_Tb |-> Tb_,
          m_cvt |-> mmHg2Pa, raised |-> FALSE]
    ELSE IF unit_ = "bar"
    THEN [m_prs_A |-> A_, m_prs_B |-> B_, m_prs_C |-> C_, m_Tb |-> Tb_,
          m_cvt |-> bar2Pa, raised |-> FALSE]
    ELSE [m_prs_A |-> m_prs_A, m_prs_B |-> m_prs_B, m_prs_C |-> m_prs_C,
          m_Tb |-> m_Tb, m_cvt |-> m_cvt, raised |-> FALSE]

\* updateFuelSpecies: componentIndex(fuel_name) - c_offset_Y, unsigned
updateFuelSpecies(fuel_name) == SizeSub(componentIndex(fuel_name), c_offset_Y)

\* the slot of m_diff that Dgf(j) reads
Dgf_index(j) == SizeAdd(c_offset_fuel, SizeMul(j, m_nsp))

jloc_u_ge(x, j) == IF ~RLt(u(x, j), Zero) THEN j ELSE j + 1

\* upwinding by the gas velocity: jloc = (u(x,j) > 0.0 ? j : j + 1)
jloc_u(x, j) == IF RGt(u(x, j), Zero) THEN j ELSE j + 1

\* upwinding by the liquid velocity: jloc = (vl(x,j) > 0.0 ? j : j + 1)
jloc_vl(x, j) == IF RGt(vl(x, j), Zero) THEN j ELSE j + 1

\* (phi(jloc) - phi(jloc-1)) / m_dz[jloc-1] for the component at offset n
upwinded(x, n, jl) ==
    RDiv(RSub(x[index(n, jl)], x[index(n, jl - 1)]), m_dz(jl - 1))

dVdz(x, j) == upwinded(x, c_offset_V, jloc_u(x, j))

dYdz(x, k, j) == upwinded(x, c_offset_Y + k, jloc_u(x, j))

dTdz(x, j) == upwinded(x, c_offset_T, jloc_u(x, j))

dUldz(x, j) == upwinded(x, Ul_offset, jloc_vl(x, j))

dvldz(x, j) == upwinded(x, vl_offset, jloc_vl(x, j))

dmldz(x, j) == upwinded(x, ml_offset, jloc_vl(x, j))

dnldz(x, j) == upwinded(x, nl_offset, jloc_vl(x, j))

dTldz(x, j) == upwinded(x, Tl_offset, jloc_vl(x, j))

\* the grid points one evaluation of the eight derivatives at j reads
pointsRead(x, j) ==
    {j, jloc_u(x, j), jloc_u(x, j) - 1, jloc_vl(x, j), jloc_vl(x, j) - 1}


(***************************************************************************)
(* States and operations of the spray domain.                              *)
(***************************************************************************)
Units == {"mmHg", "bar", "Pa"}

VapParams == {<<Num(5), Num(1500), Zero, Num(300)>>,
              <<Num(7), Num(1500), Rat(27315, 100), Num(300)>>}

SignVals == {-1, 0, 1}

MassVals == {Zero, Rat(11, 21)}

FuelVals == {Zero, Rat(1, 2), Num(1)}

NoSp == [op |-> "none"]

\* a solution on npts points: the interior points carry the drawn axial
\* velocities, droplet mass and fuel mass fraction, every other slot a
\* value of its own
SprayValue(nsp, npts, su, sv, mlv, yf, n, j) ==
    IF 0 < j /\ j < npts - 1 /\ n = c_offset_U THEN Num(su)
    ELSE IF 0 < j /\ j < npts - 1 /\ n = c_offset_Y + nsp + c_offset_vl
         THEN Num(sv)
    ELSE IF 0 < j /\ j < npts - 1 /\ n = c_offset_Y + nsp + c_offset_ml
         THEN mlv
    ELSE IF 0 < j /\ j < npts - 1 /\ n = c_offset_Y THEN yf
    ELSE Num((n + 2) * j * j + n + 1)

SprayInit(nsp, su, sv, mlv, yf) ==
    /\ m_nsp = nsp
    /\ m_z = [j \in 0..(SprayPoints - 1) |-> Num((j * (j + 1)) \div 2)]
    /\ xs = [i \in 0..((c_offset_Y + nsp + 5) * SprayPoints - 1) |->
                SprayValue(nsp, SprayPoints, su, sv, mlv, yf,
                           i % (c_offset_Y + nsp + 5),
                           i \div (c_offset_Y + nsp + 5))]
    /\ m_prs_A = Num(5)
    /\ m_prs_B = Num(1500)
    /\ m_prs_C = Zero
    /\ m_Tb = Num(300)
    /\ m_cvt = bar2Pa
    /\ c_offset_fuel = 0
    /\ gas = [m_press |-> Num(200000),
              m_wt |-> [k \in 0..(nsp - 1) |-> Num(1)],
              m_wtm |-> [j \in 0..(SprayPoints - 1) |-> Num(1)],
              m_rho |-> [j \in 0..(SprayPoints - 1) |-> Num(1)],
              m_cp |-> [j \in 0..(SprayPoints - 1) |-> Num(1)],
              m_diff |-> [i \in 0..(nsp * SprayPoints - 1) |-> Num(1)],
              m_rhol_A |-> Num(1), m_rhol_B |-> Zero, m_rhol_C |-> Zero,
              m_rhol_D |-> Zero]
    /\ sp = NoSp

SprayDefault == SprayInit(1, -1, -1, Zero, Zero)

NoRun == [attempts |-> 0, refines |-> 0, steps |-> 0, halvings |-> 0, nss |-> 0]

NoCb == [n |-> 0, x |-> NoVec, grid |-> NoVec]

(***************************************************************************)
(* Initial states.                                                         *)
(***************************************************************************)
DriverInit(chi, tau, uf, uo, rf, ro) ==
    /\ np = 2
    /\ grid = [j \in 0..1 |-> Num(j)]
    /\ m_x = setSolution(XIn("in", 2, chi), NComp * 2)
    /\ lb = resize_lb(2)
    /\ ub = resize_ub(2)
    /\ m_chi = chi
    /\ m_amplify_threshold = tau
    /\ m_uin_f = uf
    /\ m_uin_o = uo
    /\ m_rhoin_f = rf
    /\ m_rhoin_o = ro
    /\ mdot_f = RMul(rf, uf)
    /\ mdot_o = RMul(ro, uo)
    /\ f = NoVec
    /\ call = NoCall
    /\ ncalls = 0
    /\ pc = "idle"
    /\ refine_grid = TRUE
    /\ m_xlast_ts = NoVec
    /\ m_xlast_ss = NoVec
    /\ m_grid_last_ss = NoVec
    /\ m_steady_callback = FALSE
    /\ status = 0
    /\ ret = <<>>
    /\ run = NoRun
    /\ last = "none"
    /\ good = [ss_x |-> NoVec, ss_grid |-> NoVec, ts_x |-> NoVec]
    /\ cb = NoCb

InitWith(chi, tau, uf, uo, rf, ro) ==
    DriverInit(chi, tau, uf, uo, rf, ro) /\ SprayDefault

Init == InitWith(Num(1), Num(1), Num(1), Num(3), Num(2), Num(1))

\* any configuration, with the inlets holding mdot = rho_in * u_in
InitAny ==
    \E chi \in ChiVals, tau \in TauVals, uf \in VelVals, uo \in VelVals,
       rf \in RhoVals, ro \in RhoVals :
        InitWith(chi, tau, uf, uo, rf, ro)

(***************************************************************************)
(* Actions of the continuation driver.                                     *)
(***************************************************************************)
cfg == <<m_amplify_threshold, m_uin_f, m_uin_o, m_rhoin_f, m_rhoin_o>>

dom == <<np, grid, lb, ub>>

SetStrainRateValue(a1) ==
    /\ ncalls < MaxCalls
    /\ m_chi' = a1
    /\ ncalls' = ncalls + 1
    /\ call' = [NoCall EXCEPT !.op = "setStrainRateValue", !.seq = ncalls + 1]
    /\ UNCHANGED <<spr, slv, dom, m_x, cfg, mdot_f, mdot_o, f>>

SetFuelVelocity(v) ==
    /\ ncalls < MaxCalls
    /\ m_uin_f' = v
    /\ ncalls' = ncalls + 1
    /\ call' = [NoCall EXCEPT !.op = "setFuelVelocity", !.seq = ncalls + 1]
    /\ UNCHANGED <<spr, slv, dom, m_x, m_chi, m_amplify_threshold, m_uin_o, m_rhoin_f,
                   m_rhoin_o, mdot_f, mdot_o, f>>

SetOxidizerVelocity(v) ==
    /\ ncalls < MaxCalls
    /\ m_uin_o' = v
    /\ ncalls' = ncalls + 1
    /\ call' = [NoCall EXCEPT !.op = "setOxidizerVelocity", !.seq = ncalls + 1]
    /\ UNCHANGED <<spr, slv, dom, m_x, m_chi, m_amplify_threshold, m_uin_f, m_rhoin_f,
                   m_rhoin_o, mdot_f, mdot_o, f>>

SetFuelDensity(r) ==
    /\ ncalls < MaxCalls
    /\ m_rhoin_f' = r
    /\ ncalls' = ncalls + 1
    /\ call' = [NoCall EXCEPT !.op = "setFuelDensity", !.seq = ncalls + 1]
    /\ UNCHANGED <<spr, slv, dom, m_x, m_chi, m_amplify_threshold, m_uin_f, m_uin_o,
                   m_rhoin_o, mdot_f, mdot_o, f>>

SetOxidizerDensity(r) ==
    /\ ncalls < MaxCalls
    /\ m_rhoin_o' = r
    /\ ncalls' = ncalls + 1
    /\ call' = [NoCall EXCEPT !.op = "setOxidizerDensity", !.seq = ncalls + 1]
    /\ UNCHANGED <<spr, slv, dom, m_x, m_chi, m_amplify_threshold, m_uin_f, m_uin_o,
                   m_rhoin_f, mdot_f, mdot_o, f>>

SetAmplifyThreshold(a) ==
    /\ ncalls < MaxCalls
    /\ m_amplify_threshold' = a
    /\ ncalls' = ncalls + 1
    /\ call' = [NoCall EXCEPT !.op = "setAmplifyThreshold", !.seq = ncalls + 1]
    /\ UNCHANGED <<spr, slv, dom, m_x, m_chi, m_uin_f, m_uin_o, m_rhoin_f, m_rhoin_o,
                   mdot_f, mdot_o, f>>

\* setStrainRate(nvar, x): only x[nvar-1] = a1 is read
SetStrainRate(a1) ==
    /\ ncalls < MaxCalls
    /\ \E r \in {setStrainRate(m_x, np, a1)} :
           /\ m_x' = r.m_x
           /\ mdot_f' = r.mdot_f
           /\ mdot_o' = r.mdot_o
           /\ m_chi' = r.m_chi
           /\ call' = [op |-> "setStrainRate", x |-> FIn(np, a1), amp |-> r.amp,
                       excess |-> Zero, F |-> NoVec, seq |-> ncalls + 1]
    /\ ncalls' = ncalls + 1
    /\ UNCHANGED <<spr, slv, dom, cfg, f>>

UnboundResidue(x, fin) ==
    /\ ncalls < MaxCalls
    /\ \E r \in {unbound_residue(systemSize + 1, x, fin)} :
           /\ m_x' = r.m_x
           /\ mdot_f' = r.mdot_f
           /\ mdot_o' = r.mdot_o
           /\ m_chi' = r.m_chi
           /\ f' = r.f
           /\ call' = [op |-> "unbound_residue", x |-> x, amp |-> r.amp,
                       excess |-> Zero, F |-> fin, seq |-> ncalls + 1]
    /\ ncalls' = ncalls + 1
    /\ UNCHANGED <<spr, slv, dom, cfg>>

BoundResidue(x, fin) ==
    /\ ncalls < MaxCalls
    /\ \E r \in {bound_residue(systemSize + 1, x, fin)} :
           /\ m_x' = r.m_x
           /\ m_chi' = r.m_chi
           /\ mdot_f' = r.mdot_f
           /\ mdot_o' = r.mdot_o
           /\ f' = r.f
           /\ call' = [op |-> "bound_residue", x |-> x, amp |-> FALSE,
                       excess |-> r.excess, F |-> r.F, seq |-> ncalls + 1]
    /\ ncalls' = ncalls + 1
    /\ UNCHANGED <<spr, slv, dom, cfg>>

\* refine(): one point inserted or one interior point removed, then resize()
RefineInsert(k) ==
    /\ ncalls < MaxCalls
    /\ np < MaxPoints
    /\ np' = np + 1
    /\ grid' = insertPoint(grid, np, k)
    /\ m_x' = insertValues(m_x, np, k)
    /\ lb' = resize_lb(np + 1)
    /\ ub' = resize_ub(np + 1)
    /\ call' = [NoCall EXCEPT !.op = "refine", !.seq = ncalls + 1]
    /\ ncalls' = ncalls + 1
    /\ UNCHANGED <<spr, slv, cfg, m_chi, mdot_f, mdot_o, f>>

RefineRemove(k) ==
    /\ ncalls < MaxCalls
    /\ np > 2
    /\ np' = np - 1
    /\ grid' = removePoint(grid, np, k)
    /\ m_x' = removeValues(m_x, np, k)
    /\ lb' = resize_lb(np - 1)
    /\ ub' = resize_ub(np - 1)
    /\ call' = [NoCall EXCEPT !.op = "refine", !.seq = ncalls + 1]
    /\ ncalls' = ncalls + 1
    /\ UNCHANGED <<spr, slv, cfg, m_chi, mdot_f, mdot_o, f>>

Next ==
    \/ \E a1 \in ChiVals : SetStrainRateValue(a1)
    \/ \E v \in VelVals : SetFuelVelocity(v)
    \/ \E v \in VelVals : SetOxidizerVelocity(v)
    \/ \E r \in RhoVals : SetFuelDensity(r)
    \/ \E r \in RhoVals : SetOxidizerDensity(r)
    \/ \E a \in TauVals : SetAmplifyThreshold(a)
    \/ \E a1 \in ChiVals : SetStrainRate(a1)
    \/ \E i \in UnboundInputs :
            UnboundResidue(XIn(i[1], np, i[2]), FIn(np, Num(1)))
    \/ \E i \in BoundInputs :
            BoundResidue(XIn(i[1], np, i[2]), FIn(np, i[3]))
    \/ \E k \in 0..(np - 2) : RefineInsert(k)
    \/ \E k \in 1..(np - 2) : RefineRemove(k)

Spec == Init /\ [][Next]_vars

\* runs made of setStrainRate calls only, from any configuration
NextStrain == \E a1 \in ChiVals : SetStrainRate(a1)

SpecStrain == InitAny /\ [][NextStrain]_vars

\* runs of setStrainRate calls that start at chi = 1 and step through
\* neighbouring strain rates
DriftVals == {Num(1), Num(2), Num(3)}

InitDrift ==
    \E tau \in TauVals, uf \in VelVals, uo \in VelVals,
       rf \in RhoVals, ro \in RhoVals :
        InitWith(Num(1), tau, uf, uo, rf, ro)

NextDrift == \E a1 \in DriftVals : SetStrainRate(a1)

SpecDrift == InitDrift /\ [][NextDrift]_vars

\* runs of setStrainRate calls that start at chi = 1 and whose continuation
\* values lie in [lb[N], ub[N]] = [0, 1e10], the lower bound 0 included
ZeroVals == {Zero, Num(1), Num(2)}

NextZero == \E a1 \in ZeroVals : SetStrainRate(a1)

SpecZero == InitDrift /\ [][NextZero]_vars

(***************************************************************************)
(* The hybrid solver: solve(), the steady callback and the restore calls.  *)
(* The Newton iteration and the time integration are external: an attempt  *)
(* either succeeds and leaves a solution, or fails and leaves anything.    *)
(* m_grid_last_ss holds the flow domain's grid; the inlets' one-point      *)
(* grids never change.                                                     *)
(***************************************************************************)
SolnVals == {Num(1), Num(2)}

\* what a failed attempt may leave in m_x
XVals == SolnVals \cup {Zero}

Flat(npts, v) == [k \in 0..(size(npts) - 1) |-> v]

\* callers' positions: no solve() is running
Caller == {"idle", "done", "failed", "restored_ss", "restored_ts"}

\* int newtonSolve(int loglevel): 0 if successful, -1 on failure
newtonSolve(ok) == IF ok THEN 0 ELSE -1

solve_return_status(code) == <<code>>

\* void solve(int loglevel, bool refine_grid): no value reaches the caller
solve_return(code) == <<>>

afterNewton_always(code) == "callback"

\* NEWTON: on success the callback and then REFINE, on stall TSTEP
afterNewton(code) == IF code = 0 THEN "callback" ELSE "tstep"

\* the steady snapshot is taken on success only
snapshot_ss(code, now, old) == IF code = 0 THEN now ELSE old

snapshot_ts_always(ok, now, old) == now

\* the timestep snapshot is taken after a successful step only
snapshot_ts(ok, now, old) == IF ok THEN now ELSE old

restoreSteadySolution == [m_x |-> m_xlast_ss, grid |-> m_grid_last_ss]

restoreTimeSteppingSolution == [m_x |-> m_xlast_ts]

hist == <<last, good, cb>>

snaps == <<m_xlast_ts, m_xlast_ss, m_grid_last_ss>>

SetSteadyCallback(c) ==
    /\ pc \in Caller
    /\ ncalls < MaxCalls
    /\ m_steady_callback' = c
    /\ pc' = "idle"
    /\ ncalls' = ncalls + 1
    /\ UNCHANGED <<spr, drv, snaps, hist, refine_grid, status, ret, run>>

\* solve(loglevel, refine_grid) is entered
Solve(rg) ==
    /\ pc \in Caller
    /\ ncalls < MaxCalls
    /\ refine_grid' = rg
    /\ run' = NoRun
    /\ cb' = NoCb
    /\ last' = "none"
    /\ pc' = "newton"
    /\ ncalls' = ncalls + 1
    /\ UNCHANGED <<spr, drv, snaps, good, m_steady_callback, status, ret>>

\* NEWTON: one steady attempt; ok is its outcome, v what it leaves in x
Newton(ok, v) ==
    /\ pc = "newton"
    /\ run.attempts < MaxAttempts
    /\ m_x' = Flat(np, v)
    /\ status' = newtonSolve(ok)
    /\ m_xlast_ss' = snapshot_ss(status', m_x', m_xlast_ss)
    /\ m_grid_last_ss' = snapshot_ss(status', grid, m_grid_last_ss)
    /\ pc' = afterNewton(status')
    /\ run' = [run EXCEPT !.attempts = @ + 1,
                          !.steps = IF ok THEN @ ELSE MaxSteps,
                          !.nss = IF ok THEN @ + 1 ELSE @]
    /\ last' = IF ok THEN "newton_ok" ELSE "newton_stall"
    /\ good' = IF ok THEN [good EXCEPT !.ss_x = m_x', !.ss_grid = grid]
                     ELSE good
    /\ UNCHANGED <<spr, dom, cfg, m_chi, mdot_f, mdot_o, f, call, ncalls,
                   refine_grid, m_xlast_ts, m_steady_callback, ret, cb>>

\* the registered callback is evaluated; then REFINE, or the end of solve()
SteadyCallback ==
    /\ pc = "callback"
    /\ cb' = IF m_steady_callback
             THEN [n |-> cb.n + 1, x |-> m_x, grid |-> grid]
             ELSE cb
    /\ pc' = IF refine_grid THEN "refine" ELSE "done"
    /\ ret' = IF refine_grid THEN ret ELSE solve_return(0)
    /\ UNCHANGED <<spr, drv, ncalls, snaps, refine_grid, m_steady_callback,
                   status, run, last, good>>

\* TSTEP: one backward-Euler step succeeds; the block's last step doubles dt
TimeStepOk(v) ==
    /\ pc = "tstep"
    /\ m_x' = Flat(np, v)
    /\ m_xlast_ts' = snapshot_ts(TRUE, m_x', m_xlast_ts)
    /\ run' = [run EXCEPT !.steps = @ - 1,
                          !.halvings = IF run.steps = 1 THEN @ - 1 ELSE @]
    /\ pc' = IF run.steps = 1 THEN "newton" ELSE "tstep"
    /\ last' = "step_ok"
    /\ good' = [good EXCEPT !.ts_x = m_x']
    /\ UNCHANGED <<spr, dom, cfg, m_chi, mdot_f, mdot_o, f, call, ncalls,
                   refine_grid, m_xlast_ss, m_grid_last_ss,
                   m_steady_callback, status, ret, cb>>

\* TSTEP: a step fails above the floor; dt is halved and the step retried
TimeStepFail(v) ==
    /\ pc = "tstep"
    /\ run.halvings < MaxHalve
    /\ m_x' = Flat(np, v)
    /\ m_xlast_ts' = snapshot_ts(FALSE, m_x', m_xlast_ts)
    /\ run' = [run EXCEPT !.halvings = @ + 1]
    /\ last' = "step_fail"
    /\ UNCHANGED <<spr, dom, cfg, m_chi, mdot_f, mdot_o, f, call, ncalls, pc,
                   refine_grid, m_xlast_ss, m_grid_last_ss,
                   m_steady_callback, status, ret, good, cb>>

\* TSTEP: a step fails with dt at its floor: FAIL
TimeStepFloor(v) ==
    /\ pc = "tstep"
    /\ run.halvings >= MaxHalve
    /\ m_x' = Flat(np, v)
    /\ m_xlast_ts' = snapshot_ts(FALSE, m_x', m_xlast_ts)
    /\ last' = "step_fail"
    /\ pc' = "failed"
    /\ ret' = solve_return(-1)
    /\ UNCHANGED <<spr, dom, cfg, m_chi, mdot_f, mdot_o, f, call, ncalls,
                   refine_grid, m_xlast_ss, m_grid_last_ss,
                   m_steady_callback, status, run, good, cb>>

\* REFINE: the refiner asks for no change: SUCCESS
SolveRefineNone ==
    /\ pc = "refine"
    /\ pc' = "done"
    /\ ret' = solve_return(0)
    /\ UNCHANGED <<spr, drv, ncalls, snaps, hist, refine_grid, m_steady_callback,
                   status, run>>

\* REFINE: a point is inserted, the domain resized, and NEWTON entered again
SolveRefineInsert(k) ==
    /\ pc = "refine"
    /\ run.refines < MaxRefine
    /\ np < MaxPoints
    /\ np' = np + 1
    /\ grid' = insertPoint(grid, np, k)
    /\ m_x' = insertValues(m_x, np, k)
    /\ lb' = resize_lb(np + 1)
    /\ ub' = resize_ub(np + 1)
    /\ run' = [run EXCEPT !.refines = @ + 1]
    /\ pc' = "newton"
    /\ UNCHANGED <<spr, cfg, m_chi, mdot_f, mdot_o, f, call, ncalls, snaps, hist,
                   refine_grid, m_steady_callback, status, ret>>

\* REFINE: an interior point is removed
SolveRefineRemove(k) ==
    /\ pc = "refine"
    /\ run.refines < MaxRefine
    /\ np > 2
    /\ np' = np - 1
    /\ grid' = removePoint(grid, np, k)
    /\ m_x' = removeValues(m_x, np, k)
    /\ lb' = resize_lb(np - 1)
    /\ ub' = resize_ub(np - 1)
    /\ run' = [run EXCEPT !.refines = @ + 1]
    /\ pc' = "newton"
    /\ UNCHANGED <<spr, cfg, m_chi, mdot_f, mdot_o, f, call, ncalls, snaps, hist,
                   refine_grid, m_steady_callback, status, ret>>

\* REFINE: changes are asked for beyond the refinement cap: FAIL
SolveRefineCap ==
    /\ pc = "refine"
    /\ run.refines >= MaxRefine
    /\ pc' = "failed"
    /\ ret' = solve_return(-1)
    /\ UNCHANGED <<spr, drv, ncalls, snaps, hist, refine_grid, m_steady_callback,
                   status, run>>

\* restoreSteadySolution(): solution and grid of the last steady success
RestoreSteadySolution ==
    /\ pc \in Caller
    /\ ncalls < MaxCalls
    /\ m_xlast_ss # NoVec
    /\ \E r \in {restoreSteadySolution} :
           /\ m_x' = r.m_x
           /\ grid' = r.grid
           /\ np' = Cardinality(DOMAIN r.grid)
           /\ lb' = resize_lb(Cardinality(DOMAIN r.grid))
           /\ ub' = resize_ub(Cardinality(DOMAIN r.grid))
    /\ pc' = "restored_ss"
    /\ ncalls' = ncalls + 1
    /\ UNCHANGED <<spr, cfg, m_chi, mdot_f, mdot_o, f, call, snaps, hist,
                   refine_grid, m_steady_callback, status, ret, run>>

\* restoreTimeSteppingSolution(): solution of the last successful time step
RestoreTimeSteppingSolution ==
    /\ pc \in Caller
    /\ ncalls < MaxCalls
    /\ m_xlast_ts # NoVec
    /\ m_x' = restoreTimeSteppingSolution.m_x
    /\ pc' = "restored_ts"
    /\ ncalls' = ncalls + 1
    /\ UNCHANGED <<spr, dom, cfg, m_chi, mdot_f, mdot_o, f, call, snaps, hist,
                   refine_grid, m_steady_callback, status, ret, run>>

NextSolve ==
    \/ \E c \in BOOLEAN : SetSteadyCallback(c)
    \/ \E rg \in BOOLEAN : Solve(rg)
    \/ \E v \in SolnVals : Newton(TRUE, v)
    \/ \E v \in XVals : Newton(FALSE, v)
    \/ SteadyCallback
    \/ \E v \in SolnVals : TimeStepOk(v)
    \/ \E v \in XVals : TimeStepFail(v)
    \/ \E v \in XVals : TimeStepFloor(v)
    \/ SolveRefineNone
    \/ \E k \in 0..(np - 2) : SolveRefineInsert(k)
    \/ \E k \in 1..(np - 2) : SolveRefineRemove(k)
    \/ SolveRefineCap
    \/ RestoreSteadySolution
    \/ RestoreTimeSteppingSolution

SpecSolve == Init /\ [][NextSolve]_vars

(***************************************************************************)
(* The spray domain's operations, from any drawn solution.                 *)
(***************************************************************************)
InitSpray ==
    /\ DriverInit(Num(1), Num(1), Num(1), Num(3), Num(2), Num(1))
    /\ \E nsp \in 1..MaxSpecies, su \in SignVals, sv \in SignVals,
          mlv \in MassVals, yf \in FuelVals :
            SprayInit(nsp, su, sv, mlv, yf)

SetLiquidVapPressParam(A_, B_, C_, Tb_, unit_) ==
    /\ \E r \in {setLiquidVapPressParam(A_, B_, C_, Tb_, unit_)} :
           /\ m_prs_A' = r.m_prs_A
           /\ m_prs_B' = r.m_prs_B
           /\ m_prs_C' = r.m_prs_C
           /\ m_Tb' = r.m_Tb
           /\ m_cvt' = r.m_cvt
           /\ sp' = [op |-> "setLiquidVapPressParam", unit |-> unit_,
                     raised |-> r.raised]
    /\ UNCHANGED <<drv, ncalls, slv, m_nsp, m_z, xs, c_offset_fuel, gas>>

UpdateFuelSpecies(fuel_name) ==
    /\ c_offset_fuel' = updateFuelSpecies(fuel_name)
    /\ sp' = [op |-> "updateFuelSpecies", name |-> fuel_name]
    /\ UNCHANGED <<drv, ncalls, slv, m_nsp, m_z, xs, m_prs_A, m_prs_B,
                   m_prs_C, m_Tb, m_cvt, gas>>

\* the convective derivatives the residual of interior point j uses
EvalDerivatives(j) ==
    /\ sp' = [op |-> "derivatives", j |-> j,
              dVdz |-> dVdz(xs, j), dTdz |-> dTdz(xs, j),
              dYdz |-> [k \in 0..(m_nsp - 1) |-> dYdz(xs, k, j)],
              dUldz |-> dUldz(xs, j), dvldz |-> dvldz(xs, j),
              dTldz |-> dTldz(xs, j), dmldz |-> dmldz(xs, j),
              dnldz |-> dnldz(xs, j),
              reads |-> pointsRead(xs, j)]
    /\ UNCHANGED <<drv, ncalls, slv, m_nsp, m_z, xs, m_prs_A, m_prs_B,
                   m_prs_C, m_Tb, m_cvt, c_offset_fuel, gas>>

NextSpray ==
    \/ \E p \in VapParams, unit_ \in Units :
            SetLiquidVapPressParam(p[1], p[2], p[3], p[4], unit_)
    \/ \E fuel_name \in componentNames : UpdateFuelSpecies(fuel_name)
    \/ \E j \in 1..(nPoints - 2) : EvalDerivatives(j)

SpecSpray == InitSpray /\ [][NextSpray]_vars

(***************************************************************************)
(* Droplet evaporation (SprayFlame::dl, mdot, q).  The operands can be     *)
(* IEEE specials here, so sums, quotients and comparisons treat them.      *)
(***************************************************************************)
FAdd(x, y) ==
    CASE x = NaN \/ y = NaN -> NaN
      [] IsSpecial(x) /\ IsSpecial(y) /\ x # NaN /\ y # NaN ->
            IF x = y THEN x ELSE NaN
      [] IsSpecial(x) /\ ~IsSpecial(y) -> x
      [] ~IsSpecial(x) /\ IsSpecial(y) /\ y # NaN -> y
      [] ~IsSpecial(x) /\ ~IsSpecial(y) -> RAdd(x, y)

FSub(x, y) == FAdd(x, RNeg(y))

FDiv(x, y) == IF y = NaN THEN NaN ELSE RDiv(x, y)

\* the sign of x - y for operands that are not NaN
FCmp(x, y) ==
    CASE IsSpecial(x) /\ IsSpecial(y) -> ISgn(x[1] - y[1])
      [] IsSpecial(x) /\ ~IsSpecial(y) -> x[1]
      [] ~IsSpecial(x) /\ IsSpecial(y) -> -y[1]
      [] ~IsSpecial(x) /\ ~IsSpecial(y) -> RCmp(x, y)

\* every comparison with a NaN is false
FLt(x, y) == x # NaN /\ y # NaN /\ FCmp(x, y) < 0

FLe(x, y) == x # NaN /\ y # NaN /\ FCmp(x, y) <= 0

\* std::max(a, b) is (a < b) ? b : a
FMax(a, b) == IF FLt(a, b) THEN b ELSE a

\* std::sqrt(std::numeric_limits<double>::min()), about 1.5e-154: a positive
\* number below every positive value the solutions here carry
sqrtMin == Rat(1, 1000000)

\* the circle constant, as the rational 22/7
Pi == Rat(22, 7)

\* the cube root, on the rationals that are cubes
Cbrt(v) ==
    Rat(CHOOSE a \in 0..IAbs(v[1]) : a * a * a = v[1],
        CHOOSE b \in 1..v[2] : b * b * b = v[2])

\* std::pow where the model evaluates it: exponents 0, 1 and 1/3, and
\* whole powers of ten
Pow(b, ex) ==
    CASE ex = Zero -> Num(1)
      [] ex = Rat(1, 3) -> Cbrt(b)
      [] ex = Num(1) -> b
      [] b = Num(10) /\ ex[2] = 1 /\ ex[3] = 0 /\ ex[1] > 1 ->
            Num(10 ^ ex[1])

\* std::log by its zero, its sign and its specials: log(1) = 0,
\* log(0) = -inf, log of a negative number is NaN; elsewhere v - 1, which
\* has the sign of log(v)
Log(v) ==
    CASE v = NaN -> NaN
      [] v = Inf(1) -> Inf(1)
      [] v # NaN /\ v # Inf(1) /\ RSign(v) < 0 -> NaN
      [] v = Zero -> Inf(-1)
      [] ~IsSpecial(v) /\ RSign(v) > 0 -> RSub(v, Num(1))

\* std::exp by its value at 0, its order against 1 and its specials;
\* elsewhere 1 + w, so that exp(w) - 1 has the sign of w
Exp(w) ==
    CASE w = NaN -> NaN
      [] w = Inf(1) -> Inf(1)
      [] w = Inf(-1) -> Zero
      [] ~IsSpecial(w) -> RAdd(Num(1), w)

rhol(x, j) ==
    IF /\ RLt(RAbs(RSub(gas.m_rhol_B, Zero)), sqrtMin)
       /\ RLt(RAbs(RSub(gas.m_rhol_C, Zero)), sqrtMin)
       /\ RLt(RAbs(RSub(gas.m_rhol_D, Zero)), sqrtMin)
    THEN gas.m_rhol_A
    ELSE RDiv(gas.m_rhol_A,
              Pow(gas.m_rhol_B,
                  RAdd(Num(1),
                       Pow(RSub(Num(1), RDiv(Tl(x, j), gas.m_rhol_C)),
                           gas.m_rhol_D))))

dl(x, j) ==
    IF FLt(ml(x, j), sqrtMin) THEN Zero
    ELSE Pow(RDiv(RDiv(RMul(Num(6), ml(x, j)), Pi), rhol(x, j)), Rat(1, 3))

Dgf(j) == gas.m_diff[Dgf_index(j)]

prs(x, j) ==
    RMul(Pow(Num(10),
             RSub(m_prs_A, RDiv(m_prs_B, RAdd(m_prs_C, m_Tb)))),
         m_cvt)

cpgf(x, j) == gas.m_cp[j]

YrsOf(Xrs, j) ==
    RDiv(RMul(gas.m_wt[c_offset_fuel], Xrs),
         RAdd(RMul(gas.m_wt[c_offset_fuel], Xrs),
              RMul(RSub(Num(1), Xrs), gas.m_wtm[j])))

Yrs(x, j) == YrsOf(RDiv(prs(x, j), gas.m_press), j)

Bm(x, j, Yrs_) ==
    FDiv(RSub(Yrs_, Y(x, c_offset_fuel, j)),
         FMax(RSub(Num(1), Yrs_), sqrtMin))

mdot(x, j) ==
    RMul(RMul(RMul(RMul(RMul(Num(2), Pi), dl(x, j)), gas.m_rho[j]), Dgf(j)),
         Log(FAdd(Num(1), Bm(x, j, Yrs(x, j)))))

\* the divisor of the exponent in q
qDivisor(x, j) ==
    RMul(RMul(RMul(RMul(Num(2), Pi), gas.m_rho[j]), Dgf(j)), dl(x, j))

BT(x, j) == FSub(Exp(FDiv(mdot(x, j), qDivisor(x, j))), Num(1))

q(x, j) ==
    IF FLe(mdot(x, j), sqrtMin) THEN Zero
    ELSE FDiv(RMul(cpgf(x, j), RSub(T(x, j), Tl(x, j))), BT(x, j))

\* the divisors q divides by: none on the branch that returns 0.0
qDivisors(x, j) ==
    IF FLe(mdot(x, j), sqrtMin) THEN <<>>
    ELSE <<dl(x, j), BT(x, j)>>

\* the source terms of interior point j
EvalDroplet(j) ==
    /\ sp' = [op |-> "droplet", j |-> j, ml |-> ml(xs, j),
              dl |-> dl(xs, j), mdot |-> mdot(xs, j), q |-> q(xs, j),
              divisors |-> qDivisors(xs, j)]
    /\ UNCHANGED <<drv, ncalls, slv, m_nsp, m_z, xs, m_prs_A, m_prs_B,
                   m_prs_C, m_Tb, m_cvt, c_offset_fuel, gas>>

NextDroplet == \E j \in 1..(nPoints - 2) : EvalDroplet(j)

SpecDroplet == InitSpray /\ [][NextDroplet]_vars

(***************************************************************************)
(* Properties of the continuation driver.                                  *)
(***************************************************************************)
RMax(x, y) == IF RGt(x, y) THEN x ELSE y

RMin(x, y) == IF RLt(x, y) THEN x ELSE y

IsVelocity(k) == k % NComp = u_index \/ k % NComp = V_index

\* x lies within the bounds in every slot, the continuation slot included
Feasible(x) == \A i \in DOMAIN x : RLe(lb[i], x[i]) /\ RLe(x[i], ub[i])

\* C1: after every amplifying setStrainRate call of a run of such calls
\* that starts with the inlets at mdot = rho_in * u_in, each inlet's mass
\* flux has changed by the factor chi_new / chi_old
C1_MdotRatio ==
    [][(call'.op = "setStrainRate" /\ call'.amp) =>
            /\ RDiv(mdot_f', mdot_f) = RDiv(m_chi', m_chi)
            /\ RDiv(mdot_o', mdot_o) = RDiv(m_chi', m_chi)]_vars

\* C2: an amplifying setStrainRate call multiplies U and V at every point
\* by r = x[N]/chi, leaves the other components alone, scales the stored
\* inlet velocities by r, pushes rho_in * u_in of the scaled velocities to
\* the inlets and sets chi to x[N]
C2_AmplifyEffect ==
    [][(call'.op = "setStrainRate" /\ call'.amp) =>
            LET a1 == call'.x[systemSize]
                r  == RDiv(a1, m_chi)
            IN  /\ \A k \in DOMAIN m_x :
                        m_x'[k] = IF IsVelocity(k) THEN RMul(m_x[k], r) ELSE m_x[k]
                /\ m_uin_f' = RMul(m_uin_f, r)
                /\ m_uin_o' = RMul(m_uin_o, r)
                /\ mdot_f' = RMul(m_rhoin_f, m_uin_f')
                /\ mdot_o' = RMul(m_rhoin_o, m_uin_o')
                /\ m_chi' = a1]_vars

\* C3: bound_residue stores the componentwise projection of x onto the
\* bounds, so every stored component is within its bounds, evaluates the
\* steady residual at the stored vector, and its excess is the sum of
\* max(lb - x, 0) and max(x - ub, 0) over all nvar slots
C3_Projection ==
    call.op = "bound_residue" =>
        LET x == call.x
            n == systemSize
        IN  /\ \A i \in 0..(n - 1) :
                    /\ m_x[i] = RMax(lb[i], RMin(x[i], ub[i]))
                    /\ RLe(lb[i], m_x[i])
                    /\ RLe(m_x[i], ub[i])
                    /\ call.F[i] = Resid(m_x, np, mdot_f, mdot_o)[i]
            /\ call.excess =
                    RAdd(RSum([i \in 0..n |-> RMax(RSub(lb[i], x[i]), Zero)], n + 1),
                         RSum([i \in 0..n |-> RMax(RSub(x[i], ub[i]), Zero)], n + 1))

\* bound_residue has projected a vector that breaks a lower and an upper
\* bound and has the continuation slot out of bounds too
C3_Witness ==
    /\ call.op = "bound_residue"
    /\ RLt(call.x[0], lb[0])
    /\ \E i \in 0..(systemSize - 1) : RGt(call.x[i], ub[i])
    /\ ~RLe(lb[systemSize], call.x[systemSize])
    /\ RGt(call.excess, Num(3))

SignOf(x) == Num(RSign(x))

\* C4 as stated: f_i = F_i + (F_i + sign(F_i) * eps_min) * excess in every
\* slot, sign(0) being 0
C4_SignFormula ==
    call.op = "bound_residue" =>
        \A i \in 0..systemSize :
            f[i] = RAdd(call.F[i],
                        RMul(RAdd(call.F[i], RMul(SignOf(call.F[i]), Rat(1, 1000))),
                             call.excess))

\* C4 amended: f_i = F_i + (F_i + p_i) * excess with p_i = eps_min when
\* F_i > 0 and -eps_min otherwise (F_i = 0 included); F_i is the residual
\* at the projected x for i < N and, in the slot past the residual, the
\* value the caller's buffer held on entry
C4_Penalty ==
    call.op = "bound_residue" =>
        LET n == systemSize
            F == [i \in 0..n |->
                    IF i < n THEN Resid(m_x, np, mdot_f, mdot_o)[i] ELSE call.F[n]]
        IN  \A i \in 0..n :
                f[i] = RAdd(F[i],
                            RMul(RAdd(F[i], IF RGt(F[i], Zero) THEN Rat(1, 1000)
                                            ELSE Rat(-1, 1000)),
                                 call.excess))

\* bound_residue has penalized a zero, a positive and a negative residual
C4_Witness ==
    /\ call.op = "bound_residue"
    /\ RGt(call.excess, Zero)
    /\ \E i \in 0..(systemSize - 1) : call.F[i] = Zero /\ f[i] # Zero
    /\ \E i \in 0..(systemSize - 1) : RGt(call.F[i], Zero)
    /\ \E i \in 0..(systemSize - 1) : RLt(call.F[i], Zero)
    /\ call.F[systemSize] = Zero

\* C5: for x within the bounds (faces included) bound_residue returns the
\* plain steady residual at x, its excess being zero
C5_FeasibleIsPlain ==
    (call.op = "bound_residue" /\ Feasible(call.x)) =>
        /\ call.excess = Zero
        /\ \A i \in 0..(systemSize - 1) :
                f[i] = Resid(setSolution(call.x, systemSize), np, mdot_f, mdot_o)[i]

\* bound_residue was called with x on a bound face in every slot
C5_Witness ==
    /\ call.op = "bound_residue"
    /\ Feasible(call.x)
    /\ \A i \in DOMAIN call.x : call.x[i] = lb[i] \/ call.x[i] = ub[i]
    /\ \E i \in 0..(systemSize - 1) : f[i] # Zero

\* C6: lb and ub have length N+1, N the length of the solution vector;
\* the entry of component i at point j is the flow domain's bound of
\* component i; the last slot is [0, 10^10]
C6_BoundsCurrent ==
    /\ systemSize = NComp * np
    /\ DOMAIN lb = 0..systemSize
    /\ DOMAIN ub = 0..systemSize
    /\ \A j \in 0..(np - 1) : \A i \in 0..(NComp - 1) :
            /\ lb[j * NComp + i] = lowerBound(i)
            /\ ub[j * NComp + i] = upperBound(i)
    /\ lb[systemSize] = Zero
    /\ ub[systemSize] = Huge

\* the problem has been resized to more points than it started with
C6_Witness == call.op = "refine" /\ np = 3 /\ DOMAIN lb = 0..(NComp * 3)

\* C7: unbound_residue copies x into the solution, then runs setStrainRate,
\* then evaluates the residual: f is the residual of the solution as the
\* amplification left it, and without amplification the solution is x
C7_Order ==
    [][call'.op = "unbound_residue" =>
            LET x == call'.x
                n == systemSize
                r == RDiv(x[n], m_chi)
            IN  /\ \A i \in 0..(n - 1) :
                        f'[i] = Resid(m_x', np', mdot_f', mdot_o')[i]
                /\ call'.amp = Amplifies(m_chi, x[n], m_amplify_threshold)
                /\ ~call'.amp => \A i \in 0..(n - 1) : m_x'[i] = x[i]
                /\ call'.amp =>
                        \A i \in 0..(n - 1) :
                            m_x'[i] = IF IsVelocity(i) THEN RMul(x[i], r) ELSE x[i]
                /\ m_chi' = x[n]]_vars

\* unbound_residue has amplified a vector other than the one stored before
C7_Witness ==
    /\ call.op = "unbound_residue"
    /\ call.amp
    /\ \E i \in 0..(systemSize - 1) : m_x[i] # call.x[i]
    /\ ncalls > 1

(***************************************************************************)
(* Claims about solve(), the snapshots and the steady callback.            *)
(***************************************************************************)
\* C8 as stated: solve reports its outcome as an exit code: it returns 0
\* when the solve succeeds and -1 when it fails.
C8_ExitCode ==
    /\ pc = "done" => ret = <<0>>
    /\ pc = "failed" => ret = <<-1>>

\* C8: solve is declared void, so a finished solve hands no value to its
\* caller whether it succeeded or failed; the exit code 0 / -1 is what
\* newtonSolve returns for a successful / failed steady Newton attempt.
C8_NoExitCode ==
    /\ pc \in {"done", "failed"} => ret = <<>>
    /\ last = "newton_ok" => status = 0
    /\ last = "newton_stall" => status = -1
    /\ pc = "done" => status = 0

C8_Witness == pc = "failed" /\ status = -1 /\ last = "step_fail"

\* C9: the steady snapshot (solution and grid) and the timestep snapshot
\* always equal the solution and grid at the most recent successful steady
\* solve and time step; no failed attempt and no failing solve changes
\* them; the restore calls set the solution (the steady one also the grid)
\* to exactly those snapshots.
C9_SnapshotsValid ==
    /\ [](/\ m_xlast_ss = good.ss_x
          /\ m_grid_last_ss = good.ss_grid
          /\ m_xlast_ts = good.ts_x
          /\ pc = "restored_ss" =>
                /\ m_x = m_xlast_ss
                /\ grid = m_grid_last_ss
                /\ np = Cardinality(DOMAIN grid)
          /\ pc = "restored_ts" => m_x = m_xlast_ts)
    /\ [][(\/ last' \in {"newton_stall", "step_fail"}
           \/ pc' = "failed") => UNCHANGED snaps]_vars

\* a solve failed after a refinement, with both snapshots taken and the
\* solution and the grid no longer the snapshotted ones
C9_Witness ==
    /\ pc = "failed"
    /\ m_xlast_ss # NoVec
    /\ m_xlast_ts # NoVec
    /\ m_x # m_xlast_ss
    /\ m_x # m_xlast_ts
    /\ grid # m_grid_last_ss

InSolve == {"newton", "callback", "tstep", "refine"}

\* C10: within solve a registered callback is invoked exactly once after
\* each successful steady Newton solve, after the steady snapshot is taken
\* and before that iteration's refinement, never after a stalled steady
\* solve or during time-stepping, and it sees the solution and grid just
\* snapshotted.
C10_CallbackOnce ==
    /\ [](m_steady_callback /\ pc \in (InSolve \cup {"done", "failed"}) =>
            /\ pc # "callback" => cb.n = run.nss
            /\ pc = "callback" =>
                  /\ cb.n + 1 = run.nss
                  /\ m_xlast_ss = m_x
                  /\ m_grid_last_ss = grid)
    /\ [][cb'.n = cb.n + 1 =>
            /\ pc = "callback"
            /\ last = "newton_ok"
            /\ status = 0
            /\ cb'.x = m_xlast_ss /\ cb'.grid = m_grid_last_ss
            /\ cb'.x = m_x /\ cb'.grid = grid
            /\ UNCHANGED <<m_x, grid, snaps>>
            /\ pc' \in {"refine", "done"}]_vars

\* the callback has run twice in one solve, the second time on a refined grid
C10_Witness ==
    /\ m_steady_callback
    /\ pc = "refine"
    /\ cb.n = 2
    /\ np = 3
    /\ cb.grid = grid

(***************************************************************************)
(* Claims about the gate of setStrainRate and the residue functions.       *)
(***************************************************************************)
\* C14: a setStrainRate call with |x[N] - chi| <= tau, chi being the strain
\* rate the preceding call left, changes no solution component and neither
\* inlet mass flux, and sets chi to x[N]; so chi can drift further than tau
\* from where it started without any amplification.
C14_GatedFrame ==
    [][(/\ call'.op = "setStrainRate"
        /\ RLe(RAbs(RSub(m_chi, call'.x[systemSize])), m_amplify_threshold)) =>
            /\ ~call'.amp
            /\ m_x' = m_x
            /\ mdot_f' = mdot_f
            /\ mdot_o' = mdot_o
            /\ m_chi' = call'.x[systemSize]]_vars

\* two calls took chi from 1 to 3 with tau = 1 and nothing was amplified
C14_Witness ==
    /\ call.op = "setStrainRate"
    /\ call.seq = 2
    /\ ~call.amp
    /\ m_amplify_threshold = Num(1)
    /\ m_chi = Num(3)
    /\ m_x = setSolution(XIn("in", 2, Num(1)), NComp * 2)
    /\ mdot_f = RMul(m_rhoin_f, m_uin_f)
    /\ mdot_o = RMul(m_rhoin_o, m_uin_o)

\* C16 as stated: unbound_residue called twice in succession with the same
\* x returns the same f and leaves the same solution, strain rate and
\* inlet mass fluxes.
C16_Pure ==
    [][(/\ call.op = "unbound_residue" /\ call'.op = "unbound_residue"
        /\ call'.x = call.x /\ call'.F = call.F) =>
            /\ f' = f
            /\ m_x' = m_x
            /\ m_chi' = m_chi
            /\ mdot_f' = mdot_f
            /\ mdot_o' = mdot_o]_vars

\* C16: the second of two successive unbound_residue calls with the same x
\* (tau >= 0) never amplifies: it keeps the strain rate and the inlet mass
\* fluxes the first call left, stores x itself and returns the residual at
\* x; f and the stored solution equal the first call's when the first call
\* did not amplify.
C16_Repeat ==
    [][(/\ call.op = "unbound_residue" /\ call'.op = "unbound_residue"
        /\ call'.x = call.x /\ call'.F = call.F) =>
            /\ ~call'.amp
            /\ m_chi' = m_chi
            /\ mdot_f' = mdot_f
            /\ mdot_o' = mdot_o
            /\ m_x' = setSolution(call'.x, systemSize)
            /\ f' = residualInto(systemSize, systemSize + 1,
                        getResidual(setSolution(call'.x, systemSize), np,
                                    mdot_f, mdot_o),
                        call'.F)
            /\ ~call.amp => (f' = f /\ m_x' = m_x)]_vars

\* the second call stored x unscaled after a first call that amplified
C16_Witness ==
    /\ call.op = "unbound_residue"
    /\ call.seq = 2
    /\ ~call.amp
    /\ m_chi = Num(4)
    /\ m_x = setSolution(call.x, systemSize)
    /\ mdot_f = RMul(Num(4), RMul(m_rhoin_f, m_uin_f))

\* C17: in every run of setStrainRate calls that starts with chi > 0 and
\* whose continuation values lie within [lb[N], ub[N]], the strain rate
\* that divides x[N] in an amplifying call is nonzero.
C17_DivisorNonzero ==
    [][(/\ call'.op = "setStrainRate"
        /\ call'.amp
        /\ RLe(lb[systemSize], call'.x[systemSize])
        /\ RLe(call'.x[systemSize], ub[systemSize])) =>
            m_chi # Zero]_vars

C19_BoundFrame ==
    [][call'.op = "bound_residue" =>
            /\ m_chi' = m_chi
            /\ mdot_f' = mdot_f
            /\ mdot_o' = mdot_o
            /\ \A k \in DOMAIN m_x' :
                    m_x'[k] = RMax(lb[k], RMin(call'.x[k], ub[k]))]_vars

\* the residual was requested at a feasible continuation value further than
\* tau from the stored strain rate, which stayed as it was
C19_Witness ==
    /\ call.op = "bound_residue"
    /\ RLe(lb[systemSize], call.x[systemSize])
    /\ RLe(call.x[systemSize], ub[systemSize])
    /\ Amplifies(m_chi, call.x[systemSize], m_amplify_threshold)
    /\ m_chi # call.x[systemSize]

(***************************************************************************)
(* Claims about the spray domain.                                          *)
(***************************************************************************)
\* C11: setLiquidVapPressParam called with a unit other than "mmHg" or
\* "bar" raises an InvalidInput error at the call.
C11_UnknownUnitRejected ==
    (sp.op = "setLiquidVapPressParam" /\ sp.unit \notin {"mmHg", "bar"}) =>
        sp.raised

\* the offsets of a spray point's components, in the order of the claim
LayoutOffsets ==
    <<c_offset_U, c_offset_V, c_offset_T, c_offset_L>>
        \o [k \in 1..m_nsp |-> c_offset_Y + (k - 1)]
        \o <<Ul_offset, vl_offset, Tl_offset, ml_offset, nl_offset>>

\* C13 as stated: a gas-phase point carries 5 + n_species components.
C13_GasCount == Ul_offset = 5 + m_nsp

\* C13: a gas-phase point carries 4 + n_species components: U, V, T,
\* Lambda at offsets 0..3 and Y_k at 4..3+n_species; the liquid components
\* U_l, v_l, T_l, m_l, n_l take, in that order, the five offsets right after
\* them, and no two components share an offset.
C13_Layout ==
    /\ Ul_offset = 4 + m_nsp
    /\ \A i \in 1..Len(LayoutOffsets) : LayoutOffsets[i] = i - 1
    /\ Len(LayoutOffsets) = m_nv
    /\ \A n \in 0..(m_nv - 1) : componentIndex(componentName(n)) = n

C13_Witness == sp.op = "derivatives" /\ m_nsp = 2

\* the upwinded difference of the component at offset n, with jl the
\* upwind point
UpwindOf(n, jl) ==
    RDiv(RSub(xs[m_nv * jl + n], xs[m_nv * (jl - 1) + n]),
         RSub(m_z[jl], m_z[jl - 1]))

\* C15: at an interior point j the derivatives of V, T and every Y_k are
\* (phi(jloc) - phi(jloc-1)) / (z(jloc) - z(jloc-1)) with jloc = j when
\* u_j > 0 and j+1 otherwise, u_j = 0 included; the five liquid derivatives
\* follow the same rule with v_l at j; only grid points 0..n_p-1 are read.
C15_Upwind ==
    sp.op = "derivatives" =>
        LET j  == sp.j
            jg == IF RGt(xs[m_nv * j + 0], Zero) THEN j ELSE j + 1
            jq == IF RGt(xs[m_nv * j + 4 + m_nsp + 1], Zero) THEN j ELSE j + 1
        IN  /\ sp.dVdz = UpwindOf(1, jg)
            /\ sp.dTdz = UpwindOf(2, jg)
            /\ \A k \in 0..(m_nsp - 1) : sp.dYdz[k] = UpwindOf(4 + k, jg)
            /\ sp.dUldz = UpwindOf(4 + m_nsp, jq)
            /\ sp.dvldz = UpwindOf(4 + m_nsp + 1, jq)
            /\ sp.dTldz = UpwindOf(4 + m_nsp + 2, jq)
            /\ sp.dmldz = UpwindOf(4 + m_nsp + 3, jq)
            /\ sp.dnldz = UpwindOf(4 + m_nsp + 4, jq)
            /\ sp.reads \subseteq 0..(nPoints - 1)

\* derivatives were taken where the gas velocity is exactly zero and the
\* liquid velocity positive
C15_Witness ==
    /\ sp.op = "derivatives"
    /\ u(xs, sp.j) = Zero
    /\ RGt(vl(xs, sp.j), Zero)
    /\ sp.j = nPoints - 2

\* C20: after updateFuelSpecies(name), name being any component name of
\* the spray domain, the fuel index is a species index in [0, n_species)
\* and the lookups by fuel index stay inside m_wt and m_diff.
C20_FuelIndexValid ==
    sp.op = "updateFuelSpecies" =>
        /\ c_offset_fuel \in 0..(m_nsp - 1)
        /\ c_offset_fuel \in DOMAIN gas.m_wt
        /\ \A j \in 0..(nPoints - 1) : Dgf_index(j) \in DOMAIN gas.m_diff

\* C12: at every spray point whose droplet mass is below the small-mass
\* threshold the droplet diameter is 0 and the evaporation rate is 0;
\* whenever the evaporation rate is at or below the threshold the
\* convective heat term is 0; q never divides by a zero diameter or a
\* zero B_T.
C12_DropletGuards ==
    sp.op = "droplet" =>
        /\ RLt(sp.ml, sqrtMin) => (sp.dl = Zero /\ sp.mdot = Zero)
        /\ (sp.mdot # NaN /\ FCmp(sp.mdot, sqrtMin) <= 0) => sp.q = Zero
        /\ \A i \in DOMAIN sp.divisors : sp.divisors[i] # Zero

=============================================================================
